---- MODULE Spec2Model ----
(***************************************************************************)
(* s3-format-fixer: the text normalizer (parseUnquotedJSON), the envelope  *)
(* codec (json.Unmarshal / json.Marshal of snsEvent with the snsTimestamp  *)
(* and messageAttributes field codecs) and the batch driver (main) of      *)
(* src/main.go.  Texts are strings; a character is a string of length 1.   *)
(***************************************************************************)
EXTENDS Integers, Sequences, FiniteSets, TLC

VARIABLES
    fields,     \* normalizer run: the key/value pairs the input text was rendered from
    input,      \* normalizer run: the text handed to the first parseUnquotedJSON call
    text,       \* normalizer run: the current text (result of the last call)
    calls,      \* normalizer run: number of parseUnquotedJSON calls made
    passes,     \* normalizer run: the value of s after each of the three passes of the last call
    stamp,      \* timestamp run: the date, time, fraction and zone the timestamp was written from
    tsBytes,    \* timestamp run: the JSON bytes handed to snsTimestamp.UnmarshalJSON
    tsVal,      \* timestamp run: the snsTimestamp
    tsOut,      \* timestamp run: the bytes snsTimestamp.MarshalJSON returned
    tsPc,       \* timestamp run: "start", "decoded", "encoded", "err" or "exit"
    shape,      \* record run: the members the record's text was written from
    contents,   \* record run: the text of the record (what getContents returned)
    quotedJSON, \* record run: the result of parseUnquotedJSON(contents)
    event,      \* record run: the snsEvent json.Unmarshal filled
    encoded,    \* record run: the bytes json.Marshal returned (b in main)
    errField,   \* record run: the field the decode error is about
    pc,         \* record run: "start", "normalized", "decoded", "failed", "exited", "encoded"
    orig,       \* batch run: the bytes each object of the bucket had when main started
    objects,    \* batch run: the bytes each object of the bucket has now
    keys,       \* batch run: the keys ListObjects returned (l in main)
    item,       \* batch run: the position in keys of the record the loop is at
    fetched,    \* batch run: what getContents returned for the record
    body,       \* batch run: the bytes handed to PutObject (b in main)
    puts,       \* batch run: the PutObject calls made so far, in order
    mainPc      \* batch run: where main is, or how it ended

normVars == <<fields, input, text, calls, passes>>
tsVars == <<stamp, tsBytes, tsVal, tsOut, tsPc>>
recVars == <<shape, contents, quotedJSON, event, encoded, errField, pc>>
batchVars == <<orig, objects, keys, item, fetched, body, puts, mainPc>>
vars == <<normVars, tsVars, recVars, batchVars>>

\* The variables of a run of another kind stay at these values.
IdleTs == stamp = <<>> /\ tsBytes = "" /\ tsVal = <<>> /\ tsOut = "" /\ tsPc = ""
IdleRec ==
    /\ shape = <<>> /\ contents = "" /\ quotedJSON = "" /\ event = <<>> /\ encoded = ""
    /\ errField = "" /\ pc = ""
IdleBatch ==
    /\ orig = <<>> /\ objects = <<>> /\ keys = <<>> /\ item = 0 /\ fetched = ""
    /\ body = "" /\ puts = <<>> /\ mainPc = ""

(***************************************************************************)
(* Characters and character classes of the three regular expressions.      *)
(***************************************************************************)
At(s, i) == IF i >= 1 /\ i <= Len(s) THEN SubSeq(s, i, i) ELSE ""

Lower == {"a", "b", "c", "d", "e", "f", "g", "h", "i", "j", "k", "l", "m",
          "n", "o", "p", "q", "r", "s", "t", "u", "v", "w", "x", "y", "z"}
Upper == {"A", "B", "C", "D", "E", "F", "G", "H", "I", "J", "K", "L", "M",
          "N", "O", "P", "Q", "R", "S", "T", "U", "V", "W", "X", "Y", "Z"}
Digit == {"0", "1", "2", "3", "4", "5", "6", "7", "8", "9"}

\* ['"]
QuoteChars == {"'", "\""}
\* [a-z0-9A-Z_]
IdentChars == Lower \cup Upper \cup Digit \cup {"_"}
\* [a-z0-9A-Z_\/\.\-\:\?\&\=\+]
ValueChars == IdentChars \cup {"/", ".", "-", ":", "?", "&", "=", "+"}
\* [0-9\.]
NumChars == Digit \cup {"."}
\* \s of Go's regexp syntax: [\t\n\f\r ]
SpaceChars == {" ", "\t", "\n", "\f", "\r"}

\* The position after the longest run of characters of class starting at i.
RECURSIVE RunEnd(_, _, _)
RunEnd(s, i, class) ==
    IF At(s, i) \in class THEN RunEnd(s, i + 1, class) ELSE i

NoMatch == [ok |-> FALSE, from |-> 0, to |-> 0, end |-> 0]

(***************************************************************************)
(* A match of each expression anchored at position i: from..to is group 2, *)
(* end the position after the match.  Go's regexp prefers the leftmost     *)
(* match and, at one position, the greedy choice for each ? and +; the     *)
(* alternatives it would backtrack to cannot match here, because the       *)
(* character that ends a longest run, or that an optional quote skipped,   *)
(* is not one the rest of the expression accepts.                          *)
(***************************************************************************)
\* (['"])?([a-z0-9A-Z_]+)(['"])?:\s
KeyMatch(s, i) ==
    LET a == IF At(s, i) \in QuoteChars THEN i + 1 ELSE i
        b == RunEnd(s, a, IdentChars)
        c == IF At(s, b) \in QuoteChars THEN b + 1 ELSE b
    IN  IF b > a /\ At(s, c) = ":" /\ At(s, c + 1) \in SpaceChars
        THEN [ok |-> TRUE, from |-> a, to |-> b - 1, end |-> c + 2]
        ELSE NoMatch

\* The values pattern without its last group: : (['"])?([a-z0-9A-Z_\/\.\-\:\?\&\=\+]+)
ValueMatch_NoClosingQuote(s, i) ==
    LET a == IF At(s, i + 2) \in QuoteChars THEN i + 3 ELSE i + 2
        b == RunEnd(s, a, ValueChars)
    IN  IF At(s, i) = ":" /\ At(s, i + 1) = " " /\ b > a
        THEN [ok |-> TRUE, from |-> a, to |-> b - 1, end |-> b]
        ELSE NoMatch

\* : (['"])?([a-z0-9A-Z_\/\.\-\:\?\&\=\+]+)(['"])?
ValueMatch(s, i) ==
    LET a == IF At(s, i + 2) \in QuoteChars THEN i + 3 ELSE i + 2
        b == RunEnd(s, a, ValueChars)
        c == IF At(s, b) \in QuoteChars THEN b + 1 ELSE b
    IN  IF At(s, i) = ":" /\ At(s, i + 1) = " " /\ b > a
        THEN [ok |-> TRUE, from |-> a, to |-> b - 1, end |-> c]
        ELSE NoMatch

\* : (["']?)([0-9\.]+)(["']?),
NumberMatch(s, i) ==
    LET a == IF At(s, i + 2) \in QuoteChars THEN i + 3 ELSE i + 2
        b == RunEnd(s, a, NumChars)
        c == IF At(s, b) \in QuoteChars THEN b + 1 ELSE b
    IN  IF At(s, i) = ":" /\ At(s, i + 1) = " " /\ b > a /\ At(s, c) = ","
        THEN [ok |-> TRUE, from |-> a, to |-> b - 1, end |-> c + 1]
        ELSE NoMatch

(***************************************************************************)
(* re.ReplaceAllString: the non-overlapping matches from left to right,    *)
(* each replaced by the template with $2 expanded, the text between them   *)
(* copied.  starts is the set of positions at which the expression         *)
(* matches; the next match is the first of them at or after i.             *)
(***************************************************************************)
Min(S) == CHOOSE x \in S : \A y \in S : x <= y

\* re.ReplaceAllString(unquotedJSON, `"$2": `)
RECURSIVE QuoteKeysFrom(_, _, _)
QuoteKeysFrom(s, i, starts) ==
    LET later == {j \in starts : j >= i}
    IN  IF later = {} THEN SubSeq(s, i, Len(s))
        ELSE LET m == KeyMatch(s, Min(later))
             IN  SubSeq(s, i, Min(later) - 1) \o "\"" \o SubSeq(s, m.from, m.to) \o "\": "
                 \o QuoteKeysFrom(s, m.end, starts)

QuoteKeys(s) == QuoteKeysFrom(s, 1, {j \in 1..Len(s) : KeyMatch(s, j).ok})

\* re.ReplaceAllString(s, `: "$2"`)
RECURSIVE QuoteValuesFrom(_, _, _)
QuoteValuesFrom(s, i, starts) ==
    LET later == {j \in starts : j >= i}
    IN  IF later = {} THEN SubSeq(s, i, Len(s))
        ELSE LET m == ValueMatch(s, Min(later))
             IN  SubSeq(s, i, Min(later) - 1) \o ": \"" \o SubSeq(s, m.from, m.to) \o "\""
                 \o QuoteValuesFrom(s, m.end, starts)

QuoteValues(s) == QuoteValuesFrom(s, 1, {j \in 1..Len(s) : ValueMatch(s, j).ok})

\* re.ReplaceAllString(s, `: $2,`)
RECURSIVE UnquoteNumbersFrom(_, _, _)
UnquoteNumbersFrom(s, i, starts) ==
    LET later == {j \in starts : j >= i}
    IN  IF later = {} THEN SubSeq(s, i, Len(s))
        ELSE LET m == NumberMatch(s, Min(later))
             IN  SubSeq(s, i, Min(later) - 1) \o ": " \o SubSeq(s, m.from, m.to) \o ","
                 \o UnquoteNumbersFrom(s, m.end, starts)

UnquoteNumbers(s) == UnquoteNumbersFrom(s, 1, {j \in 1..Len(s) : NumberMatch(s, j).ok})

\* The value of s after each of the three assignments of parseUnquotedJSON.
parsePasses(unquotedJSON) ==
    LET s1 == QuoteKeys(unquotedJSON)
        s2 == QuoteValues(s1)
        s3 == UnquoteNumbers(s2)
    IN  <<s1, s2, s3>>

parseUnquotedJSON(unquotedJSON) == parsePasses(unquotedJSON)[3]

(***************************************************************************)
(* Normalizer runs: the input is a one- or two-field object rendered with  *)
(* strict key quoting; a value is a double-quoted string, a bare number or *)
(* bare text.  Each step is one call of parseUnquotedJSON on the result of *)
(* the previous one.                                                       *)
(***************************************************************************)
MaxValLen == 3
MaxCalls == 2

\* The units a value's content is built from; \" is the escaped quote of a strict string.
ValAlphabet == {"a", "1", " ", ",", ":", ".", "-", "'", "\\\""}

RECURSIVE Contents(_)
Contents(n) ==
    IF n = 0 THEN {""}
    ELSE LET shorter == Contents(n - 1)
         IN  shorter \cup {t \o c : t \in shorter, c \in ValAlphabet}

FirstValues ==
    {[kind |-> "string", content |-> t, val |-> "\"" \o t \o "\""] : t \in Contents(MaxValLen)}
    \cup {[kind |-> "number", content |-> t, val |-> t] : t \in {"0", "12", "1.5"}}
    \cup {[kind |-> "bare", content |-> t, val |-> t] : t \in Contents(MaxValLen - 1) \ {""}}

\* One field; a field followed by a last, numeric field; a field after a string field.
InputFields ==
    {<<v>> : v \in FirstValues}
    \cup {<<v, [kind |-> "number", content |-> "7", val |-> "7"]>> : v \in FirstValues}
    \cup {<<[kind |-> "string", content |-> "x y", val |-> "\"x y\""], v>> : v \in FirstValues}

KeyOf(n) == IF n = 1 THEN "a" ELSE "b"

RECURSIVE RenderFrom(_, _)
RenderFrom(fs, n) ==
    IF n > Len(fs) THEN "}"
    ELSE (IF n > 1 THEN ", " ELSE "") \o "\"" \o KeyOf(n) \o "\": " \o fs[n].val
         \o RenderFrom(fs, n + 1)

Render(fs) == "{" \o RenderFrom(fs, 1)

IdleNorm == fields = <<>> /\ input = "" /\ text = "" /\ calls = 0 /\ passes = <<>>

InitNorm ==
    /\ IdleTs /\ IdleRec /\ IdleBatch
    /\ fields \in InputFields
    /\ input = Render(fields)
    /\ text = input
    /\ calls = 0
    /\ passes = <<>>

\* quotedJSON := parseUnquotedJSON(contents)
Normalize ==
    /\ calls < MaxCalls
    /\ \E p \in {parsePasses(text)} :
          /\ passes' = p
          /\ text' = p[3]
    /\ calls' = calls + 1
    /\ UNCHANGED <<fields, input, tsVars, recVars, batchVars>>

NextNorm == Normalize

SpecNorm == InitNorm /\ [][NextNorm]_vars

\* Every character of t is of class.
RECURSIVE AllIn(_, _)
AllIn(t, class) == t = "" \/ (Head(t) \in class /\ AllIn(Tail(t), class))

\* The input uses strict JSON quoting throughout: string and number values only.
StrictInput == \A n \in 1..Len(fields) : fields[n].kind \in {"string", "number"}

\* C8: for an input that already uses strict JSON quoting, a second (and any
\* further) call of parseUnquotedJSON returns what the first call returned:
\* parseUnquotedJSON(parseUnquotedJSON(x)) = parseUnquotedJSON(x).
C8_Idempotent ==
    (StrictInput /\ calls >= 2) => text = parseUnquotedJSON(input)

\* C8 witness: a strict input whose string value holds a space, normalized twice.
C8_Witness ==
    /\ StrictInput /\ calls = 2
    /\ fields[1].kind = "string" /\ fields[1].content = "a 1"
    /\ text # input

\* C9: in a one-field input, the value-quoting pass wraps the value in double
\* quotes when the whole value is made of the characters of the value class,
\* and leaves the text exactly as the key pass left it when the value holds
\* any other character.
C9_ValueQuoting ==
    (calls >= 1 /\ Len(fields) = 1) =>
        passes[2] = IF fields[1].content # "" /\ AllIn(fields[1].content, ValueChars)
                    THEN "{\"a\": \"" \o fields[1].content \o "\"}"
                    ELSE passes[1]

(***************************************************************************)
(* int64 arithmetic.  An int64 is its two's complement bit pattern as four *)
(* 16-bit limbs, least significant first, so that every operation wraps    *)
(* modulo 2^64 as Go's does.                                               *)
(***************************************************************************)
LimbBase == 65536

I64FromNat(n) == <<n % LimbBase, n \div LimbBase, 0, 0>>

I64Add(a, b) ==
    LET s1 == a[1] + b[1]
        s2 == a[2] + b[2] + (s1 \div LimbBase)
        s3 == a[3] + b[3] + (s2 \div LimbBase)
        s4 == a[4] + b[4] + (s3 \div LimbBase)
    IN  <<s1 % LimbBase, s2 % LimbBase, s3 % LimbBase, s4 % LimbBase>>

I64Neg(a) ==
    I64Add(<<LimbBase - 1 - a[1], LimbBase - 1 - a[2], LimbBase - 1 - a[3], LimbBase - 1 - a[4]>>,
           I64FromNat(1))

I64Sub(a, b) == I64Add(a, I64Neg(b))

I64FromInt(n) == IF n >= 0 THEN I64FromNat(n) ELSE I64Neg(I64FromNat(0 - n))

I64IsNeg(a) == a[4] >= LimbBase \div 2

\* a * k for 0 <= k < 2^15
I64MulSmall(a, k) ==
    LET p1 == a[1] * k
        p2 == a[2] * k + (p1 \div LimbBase)
        p3 == a[3] * k + (p2 \div LimbBase)
        p4 == a[4] * k + (p3 \div LimbBase)
    IN  <<p1 % LimbBase, p2 % LimbBase, p3 % LimbBase, p4 % LimbBase>>

\* Quotient and remainder of the unsigned pattern by 0 < d <= 1000.
U64DivMod(a, d) ==
    LET c4 == a[4]
        c3 == (c4 % d) * LimbBase + a[3]
        c2 == (c3 % d) * LimbBase + a[2]
        c1 == (c2 % d) * LimbBase + a[1]
    IN  [quo |-> <<c1 \div d, c2 \div d, c3 \div d, c4 \div d>>, rem |-> c1 % d]

\* Go's a / d: the quotient truncated toward zero.
I64DivSmall(a, d) ==
    IF I64IsNeg(a) THEN I64Neg(U64DivMod(I64Neg(a), d).quo) ELSE U64DivMod(a, d).quo

I64Zero == <<0, 0, 0, 0>>

DigitChar(d) == SubSeq("0123456789", d + 1, d + 1)

RECURSIVE U64Digits(_)
U64Digits(a) ==
    LET qr == U64DivMod(a, 10)
    IN  IF qr.quo = I64Zero THEN DigitChar(qr.rem)
        ELSE U64Digits(qr.quo) \o DigitChar(qr.rem)

\* strconv.FormatInt(i, 10)
FormatInt(a) == IF I64IsNeg(a) THEN "-" \o U64Digits(I64Neg(a)) ELSE U64Digits(a)

(***************************************************************************)
(* time.Parse(time.RFC3339, value): the layout 2006-01-02T15:04:05Z07:00,  *)
(* read element by element as Go's parser does.  The result is the instant *)
(* as Unix seconds (an int64) and nanoseconds within the second.           *)
(***************************************************************************)
DigitVal(c) == CHOOSE d \in 0..9 : DigitChar(d) = c

\* The number written by the n digits at i, or -1 when one of them is no digit.
RECURSIVE NumAt(_, _, _)
NumAt(s, i, n) ==
    IF n = 0 THEN 0
    ELSE LET hi == NumAt(s, i, n - 1)
         IN  IF hi < 0 \/ At(s, i + n - 1) \notin Digit THEN -1
             ELSE hi * 10 + DigitVal(At(s, i + n - 1))

IsLeap(y) == y % 4 = 0 /\ (y % 100 # 0 \/ y % 400 = 0)

daysIn(m, y) ==
    IF m = 2 THEN (IF IsLeap(y) THEN 29 ELSE 28)
    ELSE IF m \in {4, 6, 9, 11} THEN 30 ELSE 31

\* Days from 1970-01-01 to the given date of the proleptic Gregorian calendar.
DaysFromCivil(y, m, d) ==
    LET yy  == IF m <= 2 THEN y - 1 ELSE y
        era == yy \div 400
        yoe == yy - era * 400
        mp  == IF m > 2 THEN m - 3 ELSE m + 9
        doy == (153 * mp + 2) \div 5 + d - 1
        doe == yoe * 365 + yoe \div 4 - yoe \div 100 + doy
    IN  era * 146097 + doe - 719468

\* sec * 1e9, wrapping
I64MulBillion(a) == I64MulSmall(I64MulSmall(I64MulSmall(a, 1000), 1000), 1000)

RECURSIVE Pow10(_)
Pow10(k) == IF k = 0 THEN 1 ELSE 10 * Pow10(k - 1)

\* parseNanoseconds: the digits i..j-1 after the separator, at most nine of them used.
FracNanos(s, i, j) ==
    LET n == IF j - i > 9 THEN 9 ELSE j - i
    IN  NumAt(s, i, n) * Pow10(9 - n)

ParseFail == [ok |-> FALSE, sec |-> I64Zero, nsec |-> 0]

ParseRFC3339(v) ==
    LET year  == NumAt(v, 1, 4)
        month == NumAt(v, 6, 2)
        day   == NumAt(v, 9, 2)
        \* stdHour takes one or two digits
        hlen  == IF At(v, 13) \in Digit THEN 2 ELSE 1
        hour  == NumAt(v, 12, hlen)
        p     == 12 + hlen              \* the ':' after the hour
        min   == NumAt(v, p + 1, 2)
        sec   == NumAt(v, p + 4, 2)
        q     == p + 6                  \* after the seconds
        hasFrac == At(v, q) = "." /\ At(v, q + 1) \in Digit
        r     == IF hasFrac THEN RunEnd(v, q + 1, Digit) ELSE q
        nsec  == IF hasFrac THEN FracNanos(v, q + 1, r) ELSE 0
        isZ   == At(v, r) = "Z"
        zh    == NumAt(v, r + 1, 2)
        zm    == NumAt(v, r + 4, 2)
        zoneOK == \/ isZ
                  \/ /\ At(v, r) \in {"+", "-"} /\ At(v, r + 3) = ":"
                     /\ zh >= 0 /\ zm >= 0
        end   == IF isZ THEN r + 1 ELSE r + 6
        offset == IF isZ THEN 0
                  ELSE IF At(v, r) = "-" THEN 0 - (zh * 60 + zm) * 60
                  ELSE (zh * 60 + zm) * 60
        shapeOK ==
            /\ year >= 0 /\ At(v, 5) = "-"
            /\ month >= 0 /\ At(v, 8) = "-"
            /\ day >= 0 /\ At(v, 11) = "T"
            /\ hour >= 0 /\ At(v, p) = ":"
            /\ min >= 0 /\ At(v, p + 3) = ":"
            /\ sec >= 0
            /\ zoneOK
            /\ end = Len(v) + 1
        rangeOK ==
            /\ month >= 1 /\ month <= 12
            /\ hour < 24 /\ min < 60 /\ sec < 60
            /\ day >= 1 /\ day <= daysIn(month, year)
        days  == DaysFromCivil(year, month, day)
        secOfDay == hour * 3600 + min * 60 + sec - offset
    IN  IF shapeOK /\ rangeOK
        THEN [ok |-> TRUE,
              sec |-> I64Add(I64MulSmall(I64MulSmall(I64FromInt(days), 864), 100),
                             I64FromInt(secOfDay)),
              nsec |-> nsec]
        ELSE ParseFail

\* Time.UnixNano: sec*1e9 + nsec in int64, wrapping when the instant is outside 1678..2262.
UnixNano(t) == I64Add(I64MulBillion(t.sec), I64FromNat(t.nsec))

\* time.Unix(0, nsec): the instant nsec nanoseconds after the epoch, normalized.
LowNat(a) == a[1] + LimbBase * a[2]

\* n whole seconds and the rest of the nanoseconds, the rest made non-negative
Normalized(n, rest) ==
    IF I64IsNeg(rest)
    THEN [sec |-> I64Sub(n, I64FromNat(1)),
          nsec |-> LowNat(I64Add(rest, I64MulBillion(I64FromNat(1))))]
    ELSE [sec |-> n, nsec |-> LowNat(rest)]

SplitNanos(nsec, n) == Normalized(n, I64Sub(nsec, I64MulBillion(n)))

TimeUnix0(nsec) ==
    SplitNanos(nsec, I64DivSmall(I64DivSmall(I64DivSmall(nsec, 1000), 1000), 1000))

(***************************************************************************)
(* encoding/json, reading: the syntax json.Unmarshal checks first          *)
(* (checkValid) and the values it then decodes.  A node is                 *)
(* [t, s, kids, raw]: t the kind of value, s the decoded content of a      *)
(* string or the literal of a number, kids the members [k, v] of an object *)
(* or the elements of an array in document order, raw the bytes of the     *)
(* value (what an Unmarshaler's UnmarshalJSON is handed).                  *)
(***************************************************************************)
JsonWs == {" ", "\t", "\n", "\r"}
ControlChars == {"\t", "\n", "\f", "\r"}
HexChars == Digit \cup {"a", "b", "c", "d", "e", "f", "A", "B", "C", "D", "E", "F"}

Node(t, str, kids, raw) == [t |-> t, s |-> str, kids |-> kids, raw |-> raw]
NullNode == Node("null", "", <<>>, "null")
ParseError == [ok |-> FALSE, node |-> NullNode, end |-> 0]
Parsed(node, end) == [ok |-> TRUE, node |-> node, end |-> end]

SkipWs(s, i) == RunEnd(s, i, JsonWs)

\* The character an escape \e of a string stands for ("" when \e is no escape).
\* A \b or \uXXXX code point has no spelling in the model's texts and decodes to "?".
Unescape(e) ==
    CASE e = "\"" -> "\""
      [] e = "\\" -> "\\"
      [] e = "/"  -> "/"
      [] e = "n"  -> "\n"
      [] e = "t"  -> "\t"
      [] e = "r"  -> "\r"
      [] e = "f"  -> "\f"
      [] e = "b"  -> "?"
      [] OTHER    -> ""

\* A string literal whose opening quote is at from, read up to i; acc is the content decoded so far.
RECURSIVE ScanString(_, _, _, _)
ScanString(s, from, i, acc) ==
    LET c == At(s, i)
    IN  IF c = "" \/ c \in ControlChars THEN ParseError
        ELSE IF c = "\"" THEN Parsed(Node("str", acc, <<>>, SubSeq(s, from, i)), i + 1)
        ELSE IF c = "\\"
        THEN IF At(s, i + 1) = "u"
             THEN IF \A k \in 2..5 : At(s, i + k) \in HexChars
                  THEN ScanString(s, from, i + 6, acc \o "?")
                  ELSE ParseError
             ELSE IF Unescape(At(s, i + 1)) = "" THEN ParseError
             ELSE ScanString(s, from, i + 2, acc \o Unescape(At(s, i + 1)))
        ELSE ScanString(s, from, i + 1, acc \o c)

\* The ends of the parts of a number literal, 0 when the part is malformed:
\* (0 | [1-9][0-9]*) from a, (. [0-9]+)? from b, ([eE] [+-]? [0-9]+)? from c.
DigitsEnd(s, a) == IF RunEnd(s, a, Digit) = a THEN 0 ELSE RunEnd(s, a, Digit)
IntEnd(s, a) == IF At(s, a) = "0" THEN a + 1 ELSE DigitsEnd(s, a)
FracEnd(s, b) == IF b = 0 \/ At(s, b) # "." THEN b ELSE DigitsEnd(s, b + 1)
ExpEnd(s, c) ==
    IF c = 0 \/ At(s, c) \notin {"e", "E"} THEN c
    ELSE DigitsEnd(s, IF At(s, c + 1) \in {"+", "-"} THEN c + 2 ELSE c + 1)

NumberNode(s, i, e) ==
    IF e = 0 THEN ParseError
    ELSE Parsed(Node("num", SubSeq(s, i, e - 1), <<>>, SubSeq(s, i, e - 1)), e)

\* A number literal at i: -? (0 | [1-9][0-9]*) (. [0-9]+)? ([eE] [+-]? [0-9]+)?
ScanNumber(s, i) ==
    NumberNode(s, i, ExpEnd(s, FracEnd(s, IntEnd(s, IF At(s, i) = "-" THEN i + 1 ELSE i))))

IsWord(s, i, w) == i + Len(w) - 1 <= Len(s) /\ SubSeq(s, i, i + Len(w) - 1) = w

RECURSIVE ParseValue(_, _)
RECURSIVE ParseMembers(_, _, _, _)
RECURSIVE ParseElements(_, _, _, _)

\* The value that starts at i (white space already skipped).
ParseValue(s, i) ==
    LET c == At(s, i)
    IN  IF c = "{"
        THEN LET j == SkipWs(s, i + 1)
             IN  IF At(s, j) = "}" THEN Parsed(Node("obj", "", <<>>, SubSeq(s, i, j)), j + 1)
                 ELSE ParseMembers(s, i, j, <<>>)
        ELSE IF c = "["
        THEN LET j == SkipWs(s, i + 1)
             IN  IF At(s, j) = "]" THEN Parsed(Node("arr", "", <<>>, SubSeq(s, i, j)), j + 1)
                 ELSE ParseElements(s, i, j, <<>>)
        ELSE IF c = "\"" THEN ScanString(s, i, i + 1, "")
        ELSE IF c = "-" \/ c \in Digit THEN ScanNumber(s, i)
        ELSE IF IsWord(s, i, "true") THEN Parsed(Node("true", "", <<>>, "true"), i + 4)
        ELSE IF IsWord(s, i, "false") THEN Parsed(Node("false", "", <<>>, "false"), i + 5)
        ELSE IF IsWord(s, i, "null") THEN Parsed(NullNode, i + 4)
        ELSE ParseError

\* The members of the object opened at from, from the key at i on; acc holds the members before it.
ParseMembers(s, from, i, acc) ==
    IF At(s, i) # "\"" THEN ParseError
    ELSE LET key == ScanString(s, i, i + 1, "")
             j   == SkipWs(s, key.end)
             val == ParseValue(s, SkipWs(s, j + 1))
             m   == SkipWs(s, val.end)
             all == Append(acc, [k |-> key.node.s, v |-> val.node])
         IN  IF ~key.ok \/ At(s, j) # ":" THEN ParseError
             ELSE IF ~val.ok THEN ParseError
             ELSE IF At(s, m) = "}" THEN Parsed(Node("obj", "", all, SubSeq(s, from, m)), m + 1)
             ELSE IF At(s, m) = "," THEN ParseMembers(s, from, SkipWs(s, m + 1), all)
             ELSE ParseError

\* The elements of the array opened at from, from the value at i on.
ParseElements(s, from, i, acc) ==
    LET val == ParseValue(s, i)
        m   == SkipWs(s, val.end)
        all == Append(acc, [k |-> "", v |-> val.node])
    IN  IF ~val.ok THEN ParseError
        ELSE IF At(s, m) = "]" THEN Parsed(Node("arr", "", all, SubSeq(s, from, m)), m + 1)
        ELSE IF At(s, m) = "," THEN ParseElements(s, from, SkipWs(s, m + 1), all)
        ELSE ParseError

\* checkValid and the scan of the one top-level value: white space, a value, white space.
WholeDocument(data, val) ==
    IF val.ok /\ SkipWs(data, val.end) = Len(data) + 1 THEN val ELSE ParseError

ParseDocument(data) == WholeDocument(data, ParseValue(data, SkipWs(data, 1)))

(***************************************************************************)
(* The field codecs.  An UnmarshalJSON yields a status: "ok", "err" (it    *)
(* returned an error) or "exit" (it called exitErrorf: log.Fatalf ends the *)
(* process before the call returns).                                       *)
(***************************************************************************)
\* A store of whole seconds where the program stores milliseconds.
StoreParsedTime_Seconds(ts, t) ==
    IF ~t.ok THEN [status |-> "exit", ts |-> ts] ELSE [status |-> "ok", ts |-> t.sec]

\* t, err := time.Parse(..): exitErrorf on an error, else *ts = t.UnixNano() / 1e6
StoreParsedTime(ts, t) ==
    IF ~t.ok THEN [status |-> "exit", ts |-> ts]
    ELSE [status |-> "ok", ts |-> I64DivSmall(I64DivSmall(UnixNano(t), 1000), 1000)]

\* json.Unmarshal(b, &timestamp): a string is stored, null leaves "", anything else fails
TimestampFrom(ts, inner) ==
    IF ~inner.ok \/ inner.node.t \notin {"str", "null"}
    THEN [status |-> "err", ts |-> ts]
    ELSE StoreParsedTime(ts, ParseRFC3339(IF inner.node.t = "str" THEN inner.node.s ELSE ""))

\* func (ts *snsTimestamp) UnmarshalJSON(b []byte) error
snsTimestamp_UnmarshalJSON(ts, b) == TimestampFrom(ts, ParseDocument(b))

\* func (ts snsTimestamp) MarshalJSON() ([]byte, error)
snsTimestamp_MarshalJSON(ts) == [err |-> FALSE, b |-> FormatInt(UnixNano(TimeUnix0(ts)))]

\* json.Unmarshal(b, &messageAttr) for a map[string]string
DecodesAsStringMap(inner) ==
    /\ inner.ok
    /\ \/ inner.node.t = "null"
       \/ /\ inner.node.t = "obj"
          /\ \A n \in 1..Len(inner.node.kids) : inner.node.kids[n].v.t \in {"str", "null"}

\* func (m *messageAttributes) UnmarshalJSON(b []byte) error
messageAttributes_UnmarshalJSON(m, b) ==
    IF ~DecodesAsStringMap(ParseDocument(b))
    THEN [status |-> "err", m |-> m]
    ELSE [status |-> "ok", m |-> [Key |-> "", Value |-> ""]]

\* func (m messageAttributes) MarshalJSON() ([]byte, error)
messageAttributes_MarshalJSON(m) == [err |-> FALSE, b |-> "{}"]

(***************************************************************************)
(* The number conversions of the decoder.                                  *)
(***************************************************************************)
RECURSIVE StripLeadingZeros(_)
StripLeadingZeros(d) == IF d # "" /\ Head(d) = "0" THEN StripLeadingZeros(Tail(d)) ELSE d

RECURSIVE StripTrailingZeros(_)
StripTrailingZeros(d) ==
    IF d # "" /\ At(d, Len(d)) = "0" THEN StripTrailingZeros(SubSeq(d, 1, Len(d) - 1)) ELSE d

RECURSIVE Zeros(_)
Zeros(n) == IF n <= 0 THEN "" ELSE "0" \o Zeros(n - 1)

\* Whether the digit string a (no leading zeros) is a number <= that of b.
RECURSIVE DigitsLeq(_, _)
DigitsLeq(a, b) ==
    IF Len(a) # Len(b) THEN Len(a) < Len(b)
    ELSE IF a = "" THEN TRUE
    ELSE IF Head(a) # Head(b) THEN DigitVal(Head(a)) < DigitVal(Head(b))
    ELSE DigitsLeq(Tail(a), Tail(b))

\* strconv.ParseInt(lit, 10, 64) of a JSON number literal: the int as its decimal text.
ParseInt(lit) ==
    LET neg == At(lit, 1) = "-"
        mag == IF neg THEN Tail(lit) ELSE lit
        limit == IF neg THEN "9223372036854775808" ELSE "9223372036854775807"
    IN  IF ~AllIn(mag, Digit) \/ ~DigitsLeq(mag, limit) THEN [ok |-> FALSE, v |-> "0"]
        ELSE [ok |-> TRUE, v |-> IF mag = "0" THEN "0" ELSE lit]

RECURSIVE NatDigits(_)
NatDigits(n) == IF n < 10 THEN DigitChar(n) ELSE NatDigits(n \div 10) \o DigitChar(n % 10)

(***************************************************************************)
(* strconv.ParseFloat(lit, 32) followed by the encoder's                   *)
(* strconv.AppendFloat(.., 'f' or 'e', -1, 32): a float32 is kept as the   *)
(* text json.Marshal prints for it.  The text is the literal in shortest   *)
(* form, which is what Go prints when the literal has at most six          *)
(* significant digits; the rounding of longer literals is not modelled.    *)
(***************************************************************************)
\* The float32 0.digs * 10^point (digs without leading or trailing zeros).
FloatText(sign, digs, point) ==
    IF point >= 22 \/ point <= 0 - 6
    THEN sign \o Head(digs) \o (IF Len(digs) > 1 THEN "." \o Tail(digs) ELSE "")
         \o "e" \o (IF point - 1 < 0 THEN "-" \o NatDigits(1 - point)
                    ELSE "+" \o NatDigits(point - 1))
    ELSE IF point <= 0 THEN sign \o "0." \o Zeros(0 - point) \o digs
    ELSE IF point >= Len(digs) THEN sign \o digs \o Zeros(point - Len(digs))
    ELSE sign \o SubSeq(digs, 1, point) \o "." \o SubSeq(digs, point + 1, Len(digs))

\* huge: the exponent has more than three digits, out of float32's range either way
FloatOf(sign, digs, point, huge, eneg) ==
    IF digs = "" \/ (huge /\ eneg) \/ (~huge /\ point < 0 - 45)
    THEN [ok |-> TRUE, v |-> sign \o "0"]
    ELSE IF huge \/ point > 39 THEN [ok |-> FALSE, v |-> "0"]
    ELSE [ok |-> TRUE, v |-> FloatText(sign, digs, point)]

ParseFloat32(lit) ==
    LET neg  == At(lit, 1) = "-"
        a    == IF neg THEN 2 ELSE 1
        b    == RunEnd(lit, a, Digit)
        c    == IF At(lit, b) = "." THEN RunEnd(lit, b + 1, Digit) ELSE b
        ipart == SubSeq(lit, a, b - 1)
        fpart == IF c > b THEN SubSeq(lit, b + 1, c - 1) ELSE ""
        eneg == At(lit, c + 1) = "-"
        d    == IF At(lit, c + 1) \in {"+", "-"} THEN c + 2 ELSE c + 1
        edigits == IF c <= Len(lit) THEN StripLeadingZeros(SubSeq(lit, d, Len(lit))) ELSE ""
        huge == Len(edigits) > 3
        e    == IF huge \/ edigits = "" THEN 0
                ELSE (IF eneg THEN 0 - 1 ELSE 1) * NumAt(edigits, 1, Len(edigits))
        all  == ipart \o fpart
        lead == StripLeadingZeros(all)
        \* the value is 0.digs * 10^point
        point == Len(ipart) - (Len(all) - Len(lead)) + e
    IN  FloatOf(IF neg THEN "-" ELSE "", StripTrailingZeros(lead), point, huge, eneg)

(***************************************************************************)
(* The envelope: snsEvent and sns.  A struct is a record whose fields are  *)
(* named by the json tags; an int and a float32 are kept as their decimal  *)
(* text, a snsTimestamp as an int64, the *messageAttributes as            *)
(* [nil, v]: whether it is nil and, when it is not, the struct it points   *)
(* to.                                                                     *)
(***************************************************************************)
ZeroAttributes == [Key |-> "", Value |-> ""]
NilPointer == [nil |-> TRUE, v |-> ZeroAttributes]
PointerTo(m) == [nil |-> FALSE, v |-> m]

ZeroSns ==
    [messageAttributes |-> NilPointer, signingCertUrl |-> "", messageId |-> "", message |-> "",
     unsubscribeUrl |-> "", type |-> "", signatureVersion |-> "0", signature |-> "",
     timestamp |-> I64Zero, topicArn |-> ""]

ZeroEvent ==
    [sns |-> ZeroSns, eventVersion |-> "0", eventSource |-> "", eventSubscriptionArn |-> ""]

SnsStringFields ==
    {"signingCertUrl", "messageId", "message", "unsubscribeUrl", "type", "signature", "topicArn"}
EventStringFields == {"eventSource", "eventSubscriptionArn"}

UpperLetters == "ABCDEFGHIJKLMNOPQRSTUVWXYZ"
LowerLetters == "abcdefghijklmnopqrstuvwxyz"

LowerOf(c) ==
    IF c \in Upper
    THEN LET k == CHOOSE k \in 1..26 : SubSeq(UpperLetters, k, k) = c
         IN  SubSeq(LowerLetters, k, k)
    ELSE c

\* The decoder matches a key to a field name without regard to case.
RECURSIVE Fold(_)
Fold(s) == IF s = "" THEN "" ELSE LowerOf(Head(s)) \o Fold(Tail(s))

\* The field of names that key selects, "" when none does.
FieldFor(key, names) ==
    LET hits == {f \in names : Fold(f) = Fold(key)}
    IN  IF hits = {} THEN "" ELSE CHOOSE f \in hits : TRUE

\* acc is [v, err, stop]: the struct so far, the field of the first saved
\* UnmarshalTypeError ("" when none), and why decoding stopped: "" (it did
\* not), "abort" (an UnmarshalJSON returned an error) or "exit" (the process
\* ended inside an UnmarshalJSON); at holds the field it stopped at.
SaveError(acc, f) == IF acc.err = "" THEN [acc EXCEPT !.err = f] ELSE acc

\* the outcome r of messageAttributes.UnmarshalJSON, taken into the struct
StoreAttributes(acc, r) ==
    IF r.status = "ok"
    THEN [acc EXCEPT !.v.messageAttributes = PointerTo(r.m)]
    ELSE [acc EXCEPT !.stop = "abort", !.at = "messageAttributes"]

\* the outcome r of snsTimestamp.UnmarshalJSON, taken into the struct
StoreTimestamp(acc, r) ==
    IF r.status = "ok" THEN [acc EXCEPT !.v.timestamp = r.ts]
    ELSE [acc EXCEPT !.stop = IF r.status = "exit" THEN "exit" ELSE "abort",
                     !.at = "timestamp"]

\* the outcome r of a number conversion, taken into field f
StoreNumber(acc, f, r) == IF r.ok THEN [acc EXCEPT !.v[f] = r.v] ELSE SaveError(acc, f)

\* The member of the sns object that goes to field f.
DecodeSnsField(acc, f, node) ==
    IF f = "" THEN acc
    ELSE IF f = "messageAttributes"
    THEN IF node.t = "null" THEN [acc EXCEPT !.v.messageAttributes = NilPointer]
         ELSE \* a nil pointer is set to a new zero struct before the call
              StoreAttributes(acc,
                  messageAttributes_UnmarshalJSON(
                      IF acc.v.messageAttributes.nil THEN ZeroAttributes
                      ELSE acc.v.messageAttributes.v,
                      node.raw))
    ELSE IF f = "timestamp"
    THEN StoreTimestamp(acc, snsTimestamp_UnmarshalJSON(acc.v.timestamp, node.raw))
    ELSE IF node.t = "null" THEN acc
    ELSE IF f = "signatureVersion"
    THEN IF node.t = "num" THEN StoreNumber(acc, f, ParseInt(node.s)) ELSE SaveError(acc, f)
    ELSE IF node.t = "str" THEN [acc EXCEPT !.v[f] = node.s]
    ELSE SaveError(acc, f)

\* One member of the sns object.
DecodeSnsMember(acc, key, node) ==
    DecodeSnsField(acc,
        FieldFor(key, SnsStringFields \cup {"messageAttributes", "signatureVersion", "timestamp"}),
        node)

RECURSIVE DecodeSns(_, _, _)
DecodeSns(kids, n, acc) ==
    IF n > Len(kids) \/ acc.stop # "" THEN acc
    ELSE DecodeSns(kids, n + 1, DecodeSnsMember(acc, kids[n].k, kids[n].v))

\* the outcome r of decoding the sns object, taken into the snsEvent
StoreSns(acc, r) == [r EXCEPT !.v = [acc.v EXCEPT !.sns = r.v]]

\* The member of the snsEvent object that goes to field f.
DecodeEventField(acc, f, node) ==
    IF f = "" \/ node.t = "null" THEN acc
    ELSE IF f = "sns"
    THEN IF node.t = "obj"
         THEN StoreSns(acc, DecodeSns(node.kids, 1, [acc EXCEPT !.v = acc.v.sns]))
         ELSE SaveError(acc, f)
    ELSE IF f = "eventVersion"
    THEN IF node.t = "num" THEN StoreNumber(acc, f, ParseFloat32(node.s)) ELSE SaveError(acc, f)
    ELSE IF node.t = "str" THEN [acc EXCEPT !.v[f] = node.s]
    ELSE SaveError(acc, f)

\* One member of the snsEvent object.
DecodeEventMember(acc, key, node) ==
    DecodeEventField(acc, FieldFor(key, EventStringFields \cup {"sns", "eventVersion"}), node)

RECURSIVE DecodeEvent(_, _, _)
DecodeEvent(kids, n, acc) ==
    IF n > Len(kids) \/ acc.stop # "" THEN acc
    ELSE DecodeEvent(kids, n + 1, DecodeEventMember(acc, kids[n].k, kids[n].v))

(***************************************************************************)
(* json.Unmarshal([]byte(quotedJSON), &event) with event the zero          *)
(* snsEvent.  status is "ok", "err" (an error was returned; field names    *)
(* the field it is about, "" for a syntax error) or "exit".                *)
(***************************************************************************)
DecodeResult(acc) ==
    IF acc.stop = "exit" THEN [status |-> "exit", field |-> acc.at, event |-> acc.v]
    ELSE IF acc.stop = "abort" THEN [status |-> "err", field |-> acc.at, event |-> acc.v]
    ELSE IF acc.err # "" THEN [status |-> "err", field |-> acc.err, event |-> acc.v]
    ELSE [status |-> "ok", field |-> "", event |-> acc.v]

UnmarshalDocument(doc) ==
    IF ~doc.ok THEN [status |-> "err", field |-> "", event |-> ZeroEvent]
    ELSE IF doc.node.t = "null" THEN [status |-> "ok", field |-> "", event |-> ZeroEvent]
    ELSE IF doc.node.t # "obj" THEN [status |-> "err", field |-> "snsEvent", event |-> ZeroEvent]
    ELSE DecodeResult(DecodeEvent(doc.node.kids, 1,
                                  [v |-> ZeroEvent, err |-> "", stop |-> "", at |-> ""]))

Unmarshal(data) == UnmarshalDocument(ParseDocument(data))

(***************************************************************************)
(* encoding/json, writing: json.Marshal(&event).                           *)
(***************************************************************************)
\* The encoder's spelling of one character of a string (HTML escaping is on).
EscapeChar(c) ==
    CASE c = "\"" -> "\\\""
      [] c = "\\" -> "\\\\"
      [] c = "\n" -> "\\n"
      [] c = "\r" -> "\\r"
      [] c = "\t" -> "\\t"
      [] c = "\f" -> "\\u000c"
      [] c = "<"  -> "\\u003c"
      [] c = ">"  -> "\\u003e"
      [] c = "&"  -> "\\u0026"
      [] OTHER    -> c

RECURSIVE EscapeString(_)
EscapeString(s) == IF s = "" THEN "" ELSE EscapeChar(Head(s)) \o EscapeString(Tail(s))

EncodeString(s) == "\"" \o EscapeString(s) \o "\""

\* A nil pointer is written as null without calling MarshalJSON.
EncodeAttributes(p) ==
    IF p.nil THEN [err |-> FALSE, b |-> "null"] ELSE messageAttributes_MarshalJSON(p.v)

Marshal(ev) ==
    LET e  == ev.sns
        ma == EncodeAttributes(e.messageAttributes)
        ts == snsTimestamp_MarshalJSON(e.timestamp)
    IN  IF ma.err \/ ts.err THEN [err |-> TRUE, b |-> ""]
        ELSE [err |-> FALSE,
              b |-> "{\"sns\":{\"messageAttributes\":" \o ma.b
                    \o ",\"signingCertUrl\":" \o EncodeString(e.signingCertUrl)
                    \o ",\"messageId\":" \o EncodeString(e.messageId)
                    \o ",\"message\":" \o EncodeString(e.message)
                    \o ",\"unsubscribeUrl\":" \o EncodeString(e.unsubscribeUrl)
                    \o ",\"type\":" \o EncodeString(e.type)
                    \o ",\"signatureVersion\":" \o e.signatureVersion
                    \o ",\"signature\":" \o EncodeString(e.signature)
                    \o ",\"timestamp\":" \o ts.b
                    \o ",\"topicArn\":" \o EncodeString(e.topicArn)
                    \o "},\"eventVersion\":" \o ev.eventVersion
                    \o ",\"eventSource\":" \o EncodeString(ev.eventSource)
                    \o ",\"eventSubscriptionArn\":" \o EncodeString(ev.eventSubscriptionArn)
                    \o "}"]

(***************************************************************************)
(* Timestamp runs: a well-formed RFC3339 text is decoded by                *)
(* snsTimestamp.UnmarshalJSON and the value encoded by MarshalJSON.        *)
(***************************************************************************)
Years == {0, 1, 1600, 1677, 1678, 1969, 1970, 2023, 2262, 2263, 3000, 9999}
MonthDays == {<<1, 1>>, <<2, 28>>, <<4, 11>>, <<6, 15>>, <<9, 21>>, <<12, 31>>}
Clocks == {<<0, 0, 0>>, <<12, 0, 0>>, <<23, 59, 59>>}
Fractions == {"", ".000", ".5", ".123"}
\* a zone as its text and its offset from UTC in minutes
Zones == {<<"Z", 0>>, <<"+00:00", 0>>, <<"-05:30", 0 - 330>>, <<"+14:00", 840>>}

Stamps ==
    {[year |-> y, md |-> md, clock |-> c, frac |-> f, zone |-> z] :
        y \in Years, md \in MonthDays, c \in Clocks, f \in Fractions, z \in Zones}

Pad(n, width) == Zeros(width - Len(NatDigits(n))) \o NatDigits(n)

StampText(st) ==
    Pad(st.year, 4) \o "-" \o Pad(st.md[1], 2) \o "-" \o Pad(st.md[2], 2) \o "T"
    \o Pad(st.clock[1], 2) \o ":" \o Pad(st.clock[2], 2) \o ":" \o Pad(st.clock[3], 2)
    \o st.frac \o st.zone[1]

InitTs ==
    /\ IdleNorm /\ IdleRec /\ IdleBatch
    /\ stamp \in Stamps
    /\ tsBytes = "\"" \o StampText(stamp) \o "\""
    /\ tsVal = I64Zero
    /\ tsOut = ""
    /\ tsPc = "start"

\* json.Unmarshal hands the field's bytes to (*snsTimestamp).UnmarshalJSON
TsUnmarshal ==
    /\ tsPc = "start"
    /\ \E r \in {snsTimestamp_UnmarshalJSON(tsVal, tsBytes)} :
          /\ tsVal' = r.ts
          /\ tsPc' = IF r.status = "ok" THEN "decoded" ELSE r.status
    /\ UNCHANGED <<stamp, tsBytes, tsOut, normVars, recVars, batchVars>>

\* json.Marshal calls snsTimestamp.MarshalJSON
TsMarshal ==
    /\ tsPc = "decoded"
    /\ tsOut' = snsTimestamp_MarshalJSON(tsVal).b
    /\ tsPc' = "encoded"
    /\ UNCHANGED <<stamp, tsBytes, tsVal, normVars, recVars, batchVars>>

NextTs == TsUnmarshal \/ TsMarshal

SpecTs == InitTs /\ [][NextTs]_vars

\* The instant of st as whole milliseconds since the Unix epoch, computed
\* from seconds (which never leave the int64 range for years 0..9999).
ExactMillis(st) ==
    LET days == DaysFromCivil(st.year, st.md[1], st.md[2])
        secOfDay == st.clock[1] * 3600 + st.clock[2] * 60 + st.clock[3] - st.zone[2] * 60
        sec == I64Add(I64MulSmall(I64MulSmall(I64FromInt(days), 864), 100), I64FromInt(secOfDay))
        ms == IF st.frac = "" THEN 0 ELSE FracNanos(st.frac, 2, Len(st.frac) + 1) \div 1000000
    IN  I64Add(I64MulSmall(sec, 1000), I64FromNat(ms))

\* C3: for every RFC3339 timestamp, of any expressible year, UnmarshalJSON
\* followed by MarshalJSON yields the decimal number of milliseconds between
\* the Unix epoch and that instant; "2023-01-01T00:00:00.000Z" yields
\* 1672531200000.
C3_RoundTrip ==
    tsPc = "encoded" =>
        /\ tsOut = FormatInt(ExactMillis(stamp))
        /\ (tsBytes = "\"2023-01-01T00:00:00.000Z\"" => tsOut = "1672531200000")

(***************************************************************************)
(* Record runs: what main does with the contents of one object, step by    *)
(* step: parseUnquotedJSON, json.Unmarshal, json.Marshal.  A record is     *)
(* written from a choice of text for each member; "" leaves the member     *)
(* out.  The members of messageAttributes are written without a space      *)
(* after the colon, so that the normalizer hands them on as they are.      *)
(***************************************************************************)
AttrObject(members) == "\"messageAttributes\":{" \o members \o "}"

AttrNull == "\"messageAttributes\":null"

\* the texts that give messageAttributes a well-formed JSON object: empty,
\* with string values, and with a null, a number, a boolean, an object, an array
AttrObjects ==
    {AttrObject(""),
     AttrObject("\"a\":\"b\",\"c\":\"d\""),
     AttrObject("\"a\":null"),
     AttrObject("\"a\":1"),
     AttrObject("\"a\":true"),
     AttrObject("\"a\":{\"Type\":\"String\",\"Value\":\"v\"}"),
     AttrObject("\"a\":[\"x\"]")}
AttrTexts == AttrObjects \cup {"", AttrNull}

TsNotADate == "timestamp: \"not-a-date\""
TsTexts ==
    {"", "timestamp: 2023-01-01T00:00:00.000Z", "timestamp: \"2023-06-15T12:00:00Z\"",
     TsNotADate, "\"timestamp\":5"}

MidTexts == {"", "messageId: abc-123", "\"messageId\": \"abc-123\""}
SvTexts  == {"", "signatureVersion: 1", "signatureVersion: \"1\"", "\"signatureVersion\":\"1\""}
SrcTexts == {"", "eventSource: aws:sns"}

Envelopes ==
    {[kind |-> "envelope", sns |-> TRUE, attrs |-> a, mid |-> m, sv |-> v, ts |-> t, src |-> e] :
        a \in AttrTexts, m \in MidTexts, v \in SvTexts, t \in TsTexts, e \in SrcTexts}
    \cup {[kind |-> "envelope", sns |-> FALSE, attrs |-> "", mid |-> "", sv |-> "", ts |-> "",
           src |-> "eventSource: aws:sns"]}

\* the end-to-end scenario's text, as it stands and as the sns member of an envelope
ScenarioText ==
    "messageId: abc-123, signatureVersion: \"1\", timestamp: \"2023-06-15T12:00:00Z\", "
    \o "type: Notification, message: hello"

Scenarios ==
    {[kind |-> k, sns |-> k = "wrapped", attrs |-> "", mid |-> "", sv |-> "", ts |-> "", src |-> ""] :
        k \in {"scenario", "wrapped"}}

\* the members of seq that are not "", each followed by ", "
RECURSIVE Members(_, _)
Members(seq, n) ==
    IF n > Len(seq) THEN ""
    ELSE (IF seq[n] = "" THEN "" ELSE seq[n] \o ", ") \o Members(seq, n + 1)

RecordText(sh) ==
    IF sh.kind = "scenario" THEN ScenarioText
    ELSE IF sh.kind = "wrapped" THEN "{sns: {" \o ScenarioText \o "}}"
    ELSE "{eventVersion: 1.0, " \o Members(<<sh.src>>, 1)
         \o (IF sh.sns
             THEN "sns: {" \o Members(<<sh.attrs, sh.mid, sh.sv, sh.ts>>, 1)
                  \o "type: Notification, message: hello}, "
             ELSE "")
         \o "eventSubscriptionArn: arn:aws:sns:us-east-1:1:t:s}"

InitRec ==
    /\ IdleNorm /\ IdleTs /\ IdleBatch
    /\ shape \in Envelopes \cup Scenarios
    /\ contents = RecordText(shape)
    /\ quotedJSON = ""
    /\ event = ZeroEvent
    /\ encoded = ""
    /\ errField = ""
    /\ pc = "start"

\* quotedJSON := parseUnquotedJSON(contents)
RecNormalize ==
    /\ pc = "start"
    /\ quotedJSON' = parseUnquotedJSON(contents)
    /\ pc' = "normalized"
    /\ UNCHANGED <<shape, contents, event, encoded, errField, normVars, tsVars, batchVars>>

\* err = json.Unmarshal([]byte(quotedJSON), &event)
RecUnmarshal ==
    /\ pc = "normalized"
    /\ \E r \in {Unmarshal(quotedJSON)} :
          /\ event' = r.event
          /\ errField' = r.field
          /\ pc' = CASE r.status = "ok"   -> "decoded"
                     [] r.status = "err"  -> "failed"
                     [] r.status = "exit" -> "exited"
    /\ UNCHANGED <<shape, contents, quotedJSON, encoded, normVars, tsVars, batchVars>>

\* b, err := json.Marshal(&event)
RecMarshal ==
    /\ pc = "decoded"
    /\ \E m \in {Marshal(event)} :
          /\ encoded' = m.b
          /\ pc' = IF m.err THEN "failed" ELSE "encoded"
    /\ UNCHANGED <<shape, contents, quotedJSON, event, errField, normVars, tsVars, batchVars>>

NextRec == RecNormalize \/ RecUnmarshal \/ RecMarshal

SpecRec == InitRec /\ [][NextRec]_vars

\* sub occurs in t
Contains(t, sub) ==
    \E i \in 1..(Len(t) - Len(sub) + 1) : SubSeq(t, i, i + Len(sub) - 1) = sub

\* C2: an envelope whose timestamp is the string "not-a-date" ends its decode
\* in a returned error about the timestamp field: the decode does not end the
\* process, and does not succeed with some timestamp stored.
C2_SchemaMismatch ==
    (/\ shape.ts = TsNotADate
     /\ pc \in {"decoded", "failed", "exited", "encoded"}
     /\ errField \in {"", "timestamp"})
        => (pc = "failed" /\ errField = "timestamp")

\* C4: whatever the members of a well-formed messageAttributes object, the
\* decode does not fail on it, and the re-encoded record has
\* "messageAttributes":{} in its place.
C4_PlaceholderErasure ==
    shape.attrs \in AttrObjects =>
        /\ ~(pc \in {"failed", "exited"} /\ errField = "messageAttributes")
        /\ pc = "encoded" => Contains(encoded, "\"messageAttributes\":{}")

\* C5: the bytes json.Marshal produces for any decoded envelope, also one whose
\* text had messageAttributes null or not at all, hold "messageAttributes":{}
\* and no null in its place.
C5_AlwaysEmptyObject ==
    pc = "encoded" =>
        /\ Contains(encoded, "\"messageAttributes\":{}")
        /\ ~Contains(encoded, "\"messageAttributes\":null")

ScenarioQuoted ==
    "\"messageId\": \"abc-123\", \"signatureVersion\": 1, "
    \o "\"timestamp\": \"2023-06-15T12:00:00Z\", \"type\": \"Notification\", \"message\": \"hello\""

ScenarioMembers ==
    {"\"messageId\":\"abc-123\"", "\"signatureVersion\":1", "\"timestamp\":1686830400000",
     "\"type\":\"Notification\"", "\"message\":\"hello\""}

\* C6 as stated: the scenario's text, as it stands, passes every stage and the
\* encoded record holds the five members.
C6_ScenarioAsStated ==
    shape.kind = "scenario" =>
        /\ pc \notin {"failed", "exited"}
        /\ pc = "encoded" => \A m \in ScenarioMembers : Contains(encoded, m)

\* C6: the scenario's text written as the sns member of an envelope,
\* {sns: {...}}, passes every stage: it is normalized to strict quoting, is
\* decoded without error, and the encoded record holds messageId "abc-123",
\* signatureVersion 1, timestamp 1686830400000, type "Notification" and
\* message "hello".
C6_ScenarioInEnvelope ==
    shape.kind = "wrapped" =>
        /\ pc \notin {"failed", "exited"}
        /\ pc \in {"normalized", "decoded", "encoded"}
              => quotedJSON = "{\"sns\": {" \o ScenarioQuoted \o "}}"
        /\ pc = "encoded" => \A m \in ScenarioMembers : Contains(encoded, m)

C6_Witness == shape.kind = "wrapped" /\ pc = "encoded"

\* C7: a decode that succeeds had no required member missing: the sns object,
\* timestamp, messageId, signatureVersion and eventSource were all in the text.
C7_RequiredFields ==
    (shape.kind = "envelope" /\ pc \in {"decoded", "encoded"}) =>
        /\ shape.sns
        /\ "" \notin {shape.ts, shape.mid, shape.sv, shape.src}

(***************************************************************************)
(* Batch runs: main, from ListObjects to the end of the loop over the      *)
(* listed keys.  Objects are numbered 1..NumObjects; a key is the number.  *)
(***************************************************************************)
NumObjects == 2

\* The bodies an object can have: a record in loose notation, an empty
\* envelope followed by line ends, a timestamp of the wrong type, a timestamp
\* that is no date, and an object that is not closed.
Docs ==
    {"{sns: {messageId: abc-123, timestamp: 2023-01-01T00:00:00.000Z, message: hello}}",
     "{}\n\n",
     "{\"sns\":{\"timestamp\":5}}",
     "{sns: {timestamp: \"not-a-date\"}}",
     "{sns: {message: hello}"}

\* getContents drops the error of buf.ReadFrom: what it returns is the whole
\* body or, when the read broke off, the part read so far.
getContents(bytes) == {bytes, SubSeq(bytes, 1, Len(bytes) \div 2)}

\* b, err := json.Marshal(&event): an error is logged, and b stays nil
MarshalledOrNil(m) == IF m.err THEN "" ELSE m.b

\* A check of err that lets every error json.Unmarshal returned pass.
AfterUnmarshal_IgnoreError(r) ==
    IF r.status = "exit" THEN [exit |-> TRUE, b |-> ""]
    ELSE [exit |-> FALSE, b |-> MarshalledOrNil(Marshal(r.event))]

\* if err != nil { exitErrorf(..) }, unless the decode ended the process itself;
\* then json.Marshal
AfterUnmarshal(r) ==
    IF r.status # "ok" THEN [exit |-> TRUE, b |-> ""]
    ELSE [exit |-> FALSE, b |-> MarshalledOrNil(Marshal(r.event))]

\* The loop body between getContents and PutObject: parseUnquotedJSON,
\* json.Unmarshal, json.Marshal.
mainBody(c) == AfterUnmarshal(Unmarshal(parseUnquotedJSON(c)))

InitBatch ==
    /\ IdleNorm /\ IdleTs /\ IdleRec
    /\ orig \in [1..NumObjects -> Docs]
    /\ objects = orig
    /\ keys = <<>>
    /\ item = 0
    /\ fetched = ""
    /\ body = ""
    /\ puts = <<>>
    /\ mainPc = "list"

\* svc.ListObjects succeeds: the keys under the prefix, the first n objects
ListObjects ==
    /\ mainPc = "list"
    /\ \E n \in 0..NumObjects : keys' = [k \in 1..n |-> k]
    /\ mainPc' = "loop"
    /\ UNCHANGED <<orig, objects, item, fetched, body, puts, normVars, tsVars, recVars>>

\* svc.ListObjects fails: exitErrorf
ListObjectsFails ==
    /\ mainPc = "list"
    /\ mainPc' = "listFailed"
    /\ UNCHANGED <<orig, objects, keys, item, fetched, body, puts, normVars, tsVars, recVars>>

\* the next record: svc.GetObject succeeds, getContents reads the body
GetObject ==
    /\ mainPc = "loop"
    /\ item < Len(keys)
    /\ item' = item + 1
    /\ fetched' \in getContents(objects[keys[item + 1]])
    /\ mainPc' = "fetched"
    /\ UNCHANGED <<orig, objects, keys, body, puts, normVars, tsVars, recVars>>

\* the next record: svc.GetObject fails: exitErrorf
GetObjectFails ==
    /\ mainPc = "loop"
    /\ item < Len(keys)
    /\ item' = item + 1
    /\ mainPc' = "getFailed"
    /\ UNCHANGED <<orig, objects, keys, fetched, body, puts, normVars, tsVars, recVars>>

\* the record is converted: the process ends, or b is ready for PutObject
Convert ==
    /\ mainPc = "fetched"
    /\ \E r \in {mainBody(fetched)} :
          IF r.exit
          THEN mainPc' = "recordFailed" /\ body' = body
          ELSE mainPc' = "marshalled" /\ body' = r.b
    /\ UNCHANGED <<orig, objects, keys, item, fetched, puts, normVars, tsVars, recVars>>

\* svc.PutObject succeeds
PutObject ==
    /\ mainPc = "marshalled"
    /\ objects' = [objects EXCEPT ![keys[item]] = body]
    /\ puts' = Append(puts, [key |-> keys[item], body |-> body])
    /\ mainPc' = "loop"
    /\ UNCHANGED <<orig, keys, item, fetched, body, normVars, tsVars, recVars>>

\* svc.PutObject returns an error, with the object written or not: main returns
PutObjectFails ==
    /\ mainPc = "marshalled"
    /\ objects' \in {objects, [objects EXCEPT ![keys[item]] = body]}
    /\ puts' = Append(puts, [key |-> keys[item], body |-> body])
    /\ mainPc' = "putFailed"
    /\ UNCHANGED <<orig, keys, item, fetched, body, normVars, tsVars, recVars>>

\* the range over l is exhausted
LoopEnd ==
    /\ mainPc = "loop"
    /\ item = Len(keys)
    /\ mainPc' = "done"
    /\ UNCHANGED <<orig, objects, keys, item, fetched, body, puts, normVars, tsVars, recVars>>

NextBatch ==
    \/ ListObjects
    \/ ListObjectsFails
    \/ GetObject
    \/ GetObjectFails
    \/ Convert
    \/ PutObject
    \/ PutObjectFails
    \/ LoopEnd

SpecBatch == InitBatch /\ [][NextBatch]_vars

\* C1: the run is not ended by the failure of a record, read whole, while
\* listed records remain that the loop has not come to.
C1_RecordIsolation ==
    (mainPc = "recordFailed" /\ fetched = orig[keys[item]]) => item = Len(keys)

\* the bytes json.Marshal returns for the envelope decoded from bytes c
EncodesTo(m, out) == ~m.err /\ out = m.b
DecodedEncodesTo(r, out) == r.status = "ok" /\ EncodesTo(Marshal(r.event), out)
Converts(c, out) == DecodedEncodesTo(Unmarshal(parseUnquotedJSON(c)), out)

====
